---- MODULE Spec2Model ----
\* PollReader.py: the raw lines of a polling CSV are parsed into a
\* dictionary of six columns, over which three aggregation queries run.
\*
\* Text is modelled as sequences of one-character strings, so that strip,
\* split, int() and float() are computed character by character.  Floats are
\* modelled as exact rationals [num, den] in lowest terms (binary rounding
\* of IEEE doubles is not represented).  The alphabet of the input lines has
\* digits, ".", ",", blank, newline and a few letters; it has no sign, no
\* underscore and no letters that spell an exponent, "inf" or "nan", so
\* every successfully parsed number is a finite non-negative decimal.
EXTENDS Integers, Sequences, FiniteSets, TLC

VARIABLES raw_data, data_dict, pc, call, ret, mainpc

vars == <<raw_data, data_dict, pc, call, ret, mainpc>>

(***************************************************************************)
(* Bounds                                                                  *)
(***************************************************************************)
\* Largest number of lines after the header in the enumerated small files.
MaxDataLines == 3

\* Long files have between WindowThreshold - BigSpan and
\* WindowThreshold + BigSpan data lines.
BigSpan == 2

(***************************************************************************)
(* Program constants                                                       *)
(***************************************************************************)
\* polling_history_change: "if n >= 60"
WindowThreshold == 60

\* polling_history_change: slice(0, 30) and slice(n-30, n)
WindowSize == 30

(***************************************************************************)
(* Characters and str methods                                              *)
(***************************************************************************)
DigitChars == {"0", "1", "2", "3", "4", "5", "6", "7", "8", "9"}

DigitVal ==
    ("0" :> 0) @@ ("1" :> 1) @@ ("2" :> 2) @@ ("3" :> 3) @@ ("4" :> 4) @@
    ("5" :> 5) @@ ("6" :> 6) @@ ("7" :> 7) @@ ("8" :> 8) @@ ("9" :> 9)

DigitStr ==
    (0 :> "0") @@ (1 :> "1") @@ (2 :> "2") @@ (3 :> "3") @@ (4 :> "4") @@
    (5 :> "5") @@ (6 :> "6") @@ (7 :> "7") @@ (8 :> "8") @@ (9 :> "9")

\* The characters of the alphabet that str.strip() and str.split() treat as
\* whitespace.
IsSpace(c) == c \in {" ", "\n"}

RECURSIVE LStrip(_)
LStrip(s) ==
    IF s = <<>> THEN <<>>
    ELSE IF IsSpace(Head(s)) THEN LStrip(Tail(s)) ELSE s

RECURSIVE RStrip(_)
RStrip(s) ==
    IF s = <<>> THEN <<>>
    ELSE IF IsSpace(s[Len(s)]) THEN RStrip(SubSeq(s, 1, Len(s) - 1)) ELSE s

\* str.strip()
Strip(s) == RStrip(LStrip(s))

\* str.split(sep): the pieces between the occurrences of sep; always at
\* least one piece, pieces may be empty.
RECURSIVE SplitOn(_, _, _, _)
SplitOn(s, sep, done, cur) ==
    IF s = <<>> THEN Append(done, cur)
    ELSE IF Head(s) = sep THEN SplitOn(Tail(s), sep, Append(done, cur), <<>>)
    ELSE SplitOn(Tail(s), sep, done, Append(cur, Head(s)))

Split(s, sep) == SplitOn(s, sep, <<>>, <<>>)

\* str.split() without separator: the maximal runs of non-whitespace; no
\* empty pieces, and no piece at all for a blank string.
RECURSIVE SplitWS(_, _, _)
SplitWS(s, done, cur) ==
    IF s = <<>> THEN (IF cur = <<>> THEN done ELSE Append(done, cur))
    ELSE IF IsSpace(Head(s))
         THEN SplitWS(Tail(s), IF cur = <<>> THEN done ELSE Append(done, cur), <<>>)
         ELSE SplitWS(Tail(s), done, Append(cur, Head(s)))

SplitWhitespace(s) == SplitWS(s, <<>>, <<>>)

(***************************************************************************)
(* Numbers                                                                 *)
(***************************************************************************)
Abs(x) == IF x < 0 THEN -x ELSE x

RECURSIVE GCD(_, _)
GCD(a, b) == IF b = 0 THEN a ELSE GCD(b, a % b)

\* The rational n/d (d > 0) in lowest terms.
Rat(n, d) ==
    LET g == GCD(Abs(n), d)
    IN  [num |-> n \div g, den |-> d \div g]

Zero == Rat(0, 1)

RAdd(a, b) == Rat(a.num * b.den + b.num * a.den, a.den * b.den)

RSub(a, b) == Rat(a.num * b.den - b.num * a.den, a.den * b.den)

\* a / k for an integer k > 0
RDivInt(a, k) == Rat(a.num, a.den * k)

RMulInt(a, k) == Rat(a.num * k, a.den)

\* a > b
RGt(a, b) == a.num * b.den > b.num * a.den

RECURSIVE Pow10(_)
Pow10(k) == IF k = 0 THEN 1 ELSE 10 * Pow10(k - 1)

AllDigits(s) == \A i \in 1..Len(s) : s[i] \in DigitChars

\* The value of a sequence of decimal digits.
RECURSIVE DigitsVal(_, _)
DigitsVal(s, acc) ==
    IF s = <<>> THEN acc ELSE DigitsVal(Tail(s), 10 * acc + DigitVal[Head(s)])

\* int(s): surrounding whitespace is ignored; what remains must be a
\* non-empty run of digits, otherwise ValueError.
IntOk(s) == Strip(s) # <<>> /\ AllDigits(Strip(s))

IntVal(s) == DigitsVal(Strip(s), 0)

\* float(s): surrounding whitespace is ignored; what remains must be digits
\* with at most one ".", and at least one digit, otherwise ValueError.
FloatOk(s) ==
    LET t == Strip(s)
        dots == {i \in 1..Len(t) : t[i] = "."}
    IN  /\ Cardinality(dots) <= 1
        /\ \A i \in 1..Len(t) : t[i] \in DigitChars \cup {"."}
        /\ \E i \in 1..Len(t) : t[i] \in DigitChars

FloatVal(s) ==
    LET t == Strip(s)
        noDot == SelectSeq(t, LAMBDA c : c # ".")
        dots == {i \in 1..Len(t) : t[i] = "."}
        frac == IF dots = {} THEN 0 ELSE Len(t) - (CHOOSE i \in dots : TRUE)
    IN  Rat(DigitsVal(noDot, 0), Pow10(frac))

\* The decimal digits of a natural number, as a string.
RECURSIVE NatStr(_)
NatStr(n) == IF n < 10 THEN DigitStr[n] ELSE NatStr(n \div 10) \o DigitStr[n % 10]

\* f"{x:.1f}" for x >= 0: x rounded to one decimal.  A value exactly half
\* way goes to the even neighbour; the inputs have at most three decimals,
\* so x = value * 100 has at most one and is printed as it is.
Fmt1(x) ==
    LET twice == 2 * x.num * 10
        q == twice \div (2 * x.den)
        r == twice % (2 * x.den)
        tenths == IF r > x.den THEN q + 1
                  ELSE IF r < x.den THEN q
                  ELSE IF q % 2 = 0 THEN q ELSE q + 1
    IN  NatStr(tenths \div 10) \o "." \o DigitStr[tenths % 10]

(***************************************************************************)
(* Input files                                                             *)
(***************************************************************************)
LineLV ==
    <<"O", ",", "2", ",", "1", "8", " ", "L", "V", ",", "0", ".", "5", "7", ",", "0", ".", "4", "\n">>

LinePadRV ==
    <<" ", "S", " ", ",", " ", "9", " ", ",", " ", "7", " ", "x", " ", "R", "V", " ", ",", " ", ".", "5", " ", ",", " ", "0", ".", "5", "7", " ", "\n">>

LineLower ==
    <<"A", ",", "1", ",", "3", "0", " ", "l", "v", ",", "0", ".", "4", ",", "0", ".", "5">>

LineLV2 ==
    <<"O", ",", "4", ",", "9", " ", "L", "V", ",", "0", ".", "5", ",", "0", ".", "5", "\n">>

LineOneTok ==
    <<"S", ",", "7", ",", "3", "0", ",", "1", ",", "0", ".", "1", "2", "5", "\n">>

LineEmpty ==
    <<"\n">>

LineBlank ==
    <<" ", " ", "\n">>

LineFour ==
    <<"O", ",", "2", ",", "1", "8", " ", "L", "V", ",", "0", ".", "5", "\n">>

LineSix ==
    <<"O", ",", "2", ",", "1", "8", " ", "L", "V", ",", "0", ".", "5", ",", "0", ".", "4", ",", "7", "\n">>

LineBadDate ==
    <<"O", ",", "x", ",", "1", "8", " ", "L", "V", ",", "0", ".", "5", ",", "0", ".", "4", "\n">>

LineFracDate ==
    <<"O", ",", "2", ".", "5", ",", "1", "8", " ", "A", ",", "0", ".", "5", ",", "0", ".", "4", "\n">>

LineNoSize ==
    <<"O", ",", "2", ",", "L", "V", ",", "0", ".", "5", ",", "0", ".", "4", "\n">>

LineNoSample ==
    <<"O", ",", "2", ",", ",", "0", ".", "5", ",", "0", ".", "4", "\n">>

LineBadTrump ==
    <<"O", ",", "2", ",", "1", "8", " ", "L", "V", ",", "0", ".", "5", ",", "q", "\n">>

Header ==
    <<"m", ",", "d", ",", "s", ",", "H", ",", "T", "\n">>

LineHi ==
    <<"O", ",", "2", ",", "1", "8", " ", "L", "V", ",", "0", ".", "5", ",", "0", ".", "2", "5", "\n">>

LineLo ==
    <<"S", ",", "9", ",", "7", " ", "R", "V", ",", "0", ".", "2", "5", ",", "0", ".", "5", "\n">>

\* Lines of which every sequence of up to MaxDataLines is a file body.
LineSet ==
    {LineLV, LinePadRV, LineLower, LineLV2, LineBlank, LineSix, LineBadDate}

\* Lines that end a file body, alone or after one well-formed line.
EdgeLines ==
    {LineOneTok, LineEmpty, LineFour, LineFracDate, LineNoSize, LineNoSample,
     LineBadTrump}

SeqsUpTo(S, k) == UNION {[1..m -> S] : m \in 0..k}

\* The file with no line at all, and a header followed by data lines.
SmallFiles ==
    {<<>>}
    \cup {<<Header>> \o body : body \in SeqsUpTo(LineSet, MaxDataLines)}
    \cup {<<Header>> \o pre \o <<l>> : pre \in {<<>>, <<LineLV>>}, l \in EdgeLines}

\* A header, then p lines LineHi, then n - p lines LineLo.
BigFile(n, p) == <<Header>> \o [i \in 1..n |-> IF i <= p THEN LineHi ELSE LineLo]

BigFiles ==
    UNION {{BigFile(n, p) : p \in 0..n} :
           n \in (WindowThreshold - BigSpan)..(WindowThreshold + BigSpan)}

Files == SmallFiles \cup BigFiles

(***************************************************************************)
(* PollReader                                                              *)
(***************************************************************************)
Columns == {"month", "date", "sample", "sample type", "Harris result", "Trump result"}

\* __init__: self.data_dict = {'month': [], ..., 'Trump result': []}
EmptyDict == [c \in Columns |-> <<>>]

\* The attributes an instance has after __init__, and the functions the
\* class body defines: the class statement ends with __init__, the loader
\* and the three queries are defined after it at module level.
InstanceAttrs == {"base_path", "full_path", "file_obj", "raw_data", "data_dict"}

ClassAttrs == {"__init__"}

\* Attribute lookup on a PollReader instance.
HasAttr(name) == name \in InstanceAttrs \cup ClassAttrs

None == [exc |-> "none", val |-> "None"]

Return(v) == [exc |-> "none", val |-> v]

Raise(e) == [exc |-> e, val |-> "None"]

\* raw_data[1:]
SkipHeader(raw) == IF raw = <<>> THEN <<>> ELSE Tail(raw)

\* A variant that takes the token after the first one instead of the last.
PyLast_Second(seq) == seq[IF Len(seq) >= 2 THEN 2 ELSE 1]

\* seq[-1] of a non-empty list
PyLast(seq) == seq[Len(seq)]

\* The body of the loop of build_data_dict for one stripped, non-empty line,
\* up to the appends: the parsed row, or the exception of the first
\* statement that raises.
ParseLine(line) ==
    LET fields == Split(line, ",")
        parts == [i \in 1..Len(fields) |-> Strip(fields[i])]
        sample_bits == SplitWhitespace(parts[3])
    IN  IF Len(parts) < 2 THEN Raise("IndexError")
        ELSE IF ~IntOk(parts[2]) THEN Raise("ValueError")
        ELSE IF Len(parts) < 3 THEN Raise("IndexError")
        ELSE IF sample_bits = <<>> THEN Raise("IndexError")
        ELSE IF ~IntOk(sample_bits[1]) THEN Raise("ValueError")
        ELSE IF Len(parts) < 4 THEN Raise("IndexError")
        ELSE IF ~FloatOk(parts[4]) THEN Raise("ValueError")
        ELSE IF Len(parts) < 5 THEN Raise("IndexError")
        ELSE IF ~FloatOk(parts[5]) THEN Raise("ValueError")
        ELSE Return([month |-> parts[1],
                     date |-> IntVal(parts[2]),
                     sample_size |-> IntVal(sample_bits[1]),
                     sample_type |-> PyLast(sample_bits),
                     harris |-> FloatVal(parts[4]),
                     trump |-> FloatVal(parts[5])])

\* A variant that leaves out the append to 'sample type'.
AppendRow_NoType(d, row) ==
    [d EXCEPT !["month"] = Append(@, row.month),
              !["date"] = Append(@, row.date),
              !["sample"] = Append(@, row.sample_size),
              !["Harris result"] = Append(@, row.harris),
              !["Trump result"] = Append(@, row.trump)]

\* The six appends that end the loop body.
AppendRow(d, row) ==
    [d EXCEPT !["month"] = Append(@, row.month),
              !["date"] = Append(@, row.date),
              !["sample"] = Append(@, row.sample_size),
              !["sample type"] = Append(@, row.sample_type),
              !["Harris result"] = Append(@, row.harris),
              !["Trump result"] = Append(@, row.trump)]

\* One iteration of the loop of build_data_dict: a line that is empty after
\* strip() is skipped; otherwise the line is parsed and, unless a statement
\* raised, its row is appended.  The lists of data_dict are appended to in
\* place, so an exception leaves in them what the earlier lines appended.
BuildStep(raw_line, d) ==
    LET line == Strip(raw_line)
    IN  IF line = <<>> THEN [exc |-> "none", dict |-> d]
        ELSE LET p == ParseLine(line)
             IN  IF p.exc # "none" THEN [exc |-> p.exc, dict |-> d]
                 ELSE [exc |-> "none", dict |-> AppendRow(d, p.val)]

\* The iterations for lines[lo..hi] in order, started from st; the loop ends
\* at the first exception.  (The range is halved rather than peeled one line
\* at a time only to keep the evaluation shallow.)
RECURSIVE BuildLoop(_, _, _, _)
BuildLoop(lines, lo, hi, st) ==
    IF st.exc # "none" \/ lo > hi THEN st
    ELSE IF lo = hi THEN BuildStep(lines[lo], st.dict)
    ELSE LET mid == (lo + hi) \div 2
         IN  BuildLoop(lines, mid + 1, hi, BuildLoop(lines, lo, mid, st))

build_data_dict(raw, d) ==
    BuildLoop(SkipHeader(raw), 1, Len(SkipHeader(raw)), [exc |-> "none", dict |-> d])

\* max(seq) of a non-empty list: an element is replaced only by a later one
\* that is greater, so the result is the first of the largest elements.
\* MaxLoop is that result for seq[lo..hi], lo <= hi.
RECURSIVE MaxLoop(_, _, _)
MaxLoop(seq, lo, hi) ==
    IF lo = hi THEN seq[lo]
    ELSE LET mid == (lo + hi) \div 2
             l == MaxLoop(seq, lo, mid)
             r == MaxLoop(seq, mid + 1, hi)
         IN  IF RGt(r, l) THEN r ELSE l

PyMax(seq) == MaxLoop(seq, 1, Len(seq))

\* sum(seq): SumLoop adds seq[lo..hi] in order.
RECURSIVE SumLoop(_, _, _)
SumLoop(seq, lo, hi) ==
    IF lo > hi THEN Zero
    ELSE IF lo = hi THEN seq[lo]
    ELSE LET mid == (lo + hi) \div 2
         IN  RAdd(SumLoop(seq, lo, mid), SumLoop(seq, mid + 1, hi))

Sum(seq) == SumLoop(seq, 1, Len(seq))

\* f"{name} {x*100:.1f}%"
PctString(name, x) == name \o " " \o Fmt1(RMulInt(x, 100)) \o "%"

\* A variant whose first comparison is >= instead of >.
highest_polling_candidate_TieToHarris(d) ==
    IF d["Harris result"] = <<>> \/ d["Trump result"] = <<>> THEN Raise("ValueError")
    ELSE LET h_max == PyMax(d["Harris result"])
             t_max == PyMax(d["Trump result"])
         IN  IF ~RGt(t_max, h_max) THEN Return(PctString("Harris", h_max))
             ELSE IF RGt(t_max, h_max) THEN Return(PctString("Trump", t_max))
             ELSE Return(PctString("EVEN", h_max))

\* max() raises ValueError on an empty list; otherwise the two maxima are
\* compared and the greater one, or the common one, is formatted.
highest_polling_candidate(d) ==
    IF d["Harris result"] = <<>> \/ d["Trump result"] = <<>> THEN Raise("ValueError")
    ELSE LET h_max == PyMax(d["Harris result"])
             t_max == PyMax(d["Trump result"])
         IN  IF RGt(h_max, t_max) THEN Return(PctString("Harris", h_max))
             ELSE IF RGt(t_max, h_max) THEN Return(PctString("Trump", t_max))
             ELSE Return(PctString("EVEN", h_max))

\* A variant that compares the sample type without regard to case.
lv_idx_AnyCase(d) ==
    LET st == d["sample type"]
    IN  SelectSeq([i \in 1..Len(st) |-> i],
                  LAMBDA i : st[i] \in {<<"L", "V">>, <<"l", "v">>})

\* [i for i, st in enumerate(...) if st == 'LV'], as 1-based indices in order
lv_idx(d) ==
    LET st == d["sample type"]
    IN  SelectSeq([i \in 1..Len(st) |-> i], LAMBDA i : st[i] = <<"L", "V">>)

Pick(col, idx) == [j \in 1..Len(idx) |-> col[idx[j]]]

\* sum(vals) / len(vals) if vals else 0.0
AvgOrZero(vals) == IF vals # <<>> THEN RDivInt(Sum(vals), Len(vals)) ELSE Zero

likely_voter_polling_average(d) ==
    LET h_vals == Pick(d["Harris result"], lv_idx(d))
        t_vals == Pick(d["Trump result"], lv_idx(d))
    IN  Return(<<AvgOrZero(h_vals), AvgOrZero(t_vals)>>)

Min(a, b) == IF a < b THEN a ELSE b

\* slice(start, stop) applied to a list, for 0 <= start: both ends are
\* clamped to the length of the list.
PySlice(seq, sl) ==
    LET lo == Min(sl.start, Len(seq))
        hi == Min(sl.stop, Len(seq))
    IN  IF hi <= lo THEN <<>> ELSE SubSeq(seq, lo + 1, hi)

\* A variant without the branch for n >= 60.
latest_slice_NoThreshold(n) == [start |-> 0, stop |-> n \div 2]

\* The slice of the latest rows (the file has the latest poll first).
latest_slice(n) ==
    IF n >= WindowThreshold THEN [start |-> 0, stop |-> WindowSize]
    ELSE [start |-> 0, stop |-> n \div 2]

\* The slice of the earliest rows.
earliest_slice(n) ==
    IF n >= WindowThreshold THEN [start |-> n - WindowSize, stop |-> n]
    ELSE [start |-> n - (n \div 2), stop |-> n]

polling_history_change(d) ==
    LET h == d["Harris result"]
        t == d["Trump result"]
        n == Len(h)
        hl == PySlice(h, latest_slice(n))
        tl == PySlice(t, latest_slice(n))
        he == PySlice(h, earliest_slice(n))
        te == PySlice(t, earliest_slice(n))
    IN  IF Len(hl) = 0 \/ Len(tl) = 0 \/ Len(he) = 0 \/ Len(te) = 0
        THEN Raise("ZeroDivisionError")
        ELSE Return(<<RSub(RDivInt(Sum(hl), Len(hl)), RDivInt(Sum(he), Len(he))),
                      RSub(RDivInt(Sum(tl), Len(tl)), RDivInt(Sum(te), Len(te)))>>)

(***************************************************************************)
(* State machine                                                           *)
(***************************************************************************)
\* After PollReader(filename): the lines of the file are in raw_data and
\* the six columns are empty.  main is about to make its first call.
Init ==
    /\ raw_data \in Files
    /\ data_dict = EmptyDict
    /\ pc = "constructed"
    /\ call = "__init__"
    /\ ret = None
    /\ mainpc = "build_data_dict"

\* The effect of calling the function called name on the instance.  The
\* loader runs once per instance, the queries run on a loaded table.
Invoke(name) ==
    /\ call' = name
    /\ UNCHANGED raw_data
    /\ IF name = "build_data_dict"
       THEN /\ pc = "constructed"
            /\ LET r == build_data_dict(raw_data, data_dict)
               IN  /\ data_dict' = r.dict
                   /\ pc' = IF r.exc = "none" THEN "built" ELSE "failed"
                   /\ ret' = IF r.exc = "none" THEN None ELSE Raise(r.exc)
       ELSE /\ pc = "built"
            /\ UNCHANGED <<data_dict, pc>>
            /\ ret' = IF name = "highest_polling_candidate"
                      THEN highest_polling_candidate(data_dict)
                      ELSE IF name = "likely_voter_polling_average"
                      THEN likely_voter_polling_average(data_dict)
                      ELSE polling_history_change(data_dict)

\* build_data_dict(reader)
BuildDataDict == Invoke("build_data_dict") /\ UNCHANGED mainpc

\* highest_polling_candidate(reader)
HighestPollingCandidate == Invoke("highest_polling_candidate") /\ UNCHANGED mainpc

\* likely_voter_polling_average(reader)
LikelyVoterPollingAverage == Invoke("likely_voter_polling_average") /\ UNCHANGED mainpc

\* polling_history_change(reader)
PollingHistoryChange == Invoke("polling_history_change") /\ UNCHANGED mainpc

\* The calls main and setUp make, in order, each as poll_reader.<name>().
MainNext ==
    [build_data_dict |-> "highest_polling_candidate",
     highest_polling_candidate |-> "likely_voter_polling_average",
     likely_voter_polling_average |-> "polling_history_change",
     polling_history_change |-> "done"]

\* One call of main: the name is looked up on the instance; a name that is
\* not an attribute raises AttributeError, which ends main.
MainCall ==
    /\ mainpc \in DOMAIN MainNext
    /\ IF HasAttr(mainpc)
       THEN /\ Invoke(mainpc)
            /\ mainpc' = IF ret'.exc = "none" THEN MainNext[mainpc] ELSE ret'.exc
       ELSE /\ mainpc' = "AttributeError"
            /\ UNCHANGED <<raw_data, data_dict, pc, call, ret>>

Next ==
    \/ BuildDataDict
    \/ HighestPollingCandidate
    \/ LikelyVoterPollingAverage
    \/ PollingHistoryChange
    \/ MainCall

Spec == Init /\ [][Next]_vars

(***************************************************************************)
(* What the input says, read off the characters of raw_data directly       *)
(***************************************************************************)
\* The positions in raw_data of the lines after the first that have a
\* character other than whitespace, in file order.
NonBlank(line) == \E j \in 1..Len(line) : ~IsSpace(line[j])

DataLineIdx == SelectSeq([i \in 1..Len(raw_data) |-> i],
                         LAMBDA i : i > 1 /\ NonBlank(raw_data[i]))

\* s without the whitespace before its first and after its last
\* non-whitespace character.
Trim(s) ==
    LET ns == {j \in 1..Len(s) : ~IsSpace(s[j])}
    IN  IF ns = {} THEN <<>>
        ELSE SubSeq(s, CHOOSE j \in ns : \A k \in ns : j <= k,
                       CHOOSE j \in ns : \A k \in ns : j >= k)

\* The position of the k-th comma of line; 0 for k = 0, and one past the
\* end of the line when it has fewer than k commas.
CommaPos(line) == {j \in 1..Len(line) : line[j] = ","}

NthComma(line, k) ==
    IF k = 0 THEN 0
    ELSE IF k > Cardinality(CommaPos(line)) THEN Len(line) + 1
    ELSE CHOOSE j \in CommaPos(line) :
             Cardinality({m \in CommaPos(line) : m <= j}) = k

\* The k-th comma-separated field of line, trimmed.
Field(line, k) ==
    Trim(SubSeq(line, NthComma(line, k - 1) + 1, NthComma(line, k) - 1))

NumFields(line) == Cardinality(CommaPos(line)) + 1

\* The first and the last whitespace-delimited token of a trimmed,
\* non-empty field.
FirstToken(f) ==
    LET sp == {j \in 1..Len(f) : IsSpace(f[j])}
    IN  IF sp = {} THEN f
        ELSE SubSeq(f, 1, (CHOOSE j \in sp : \A k \in sp : j <= k) - 1)

LastToken(f) ==
    LET sp == {j \in 1..Len(f) : IsSpace(f[j])}
    IN  IF sp = {} THEN f
        ELSE SubSeq(f, (CHOOSE j \in sp : \A k \in sp : j >= k) + 1, Len(f))

\* A decimal integer / a decimal number with at most one point.
IsInteger(f) == f # <<>> /\ \A j \in 1..Len(f) : f[j] \in DigitChars

IsDecimal(f) ==
    /\ \E j \in 1..Len(f) : f[j] \in DigitChars
    /\ \A j \in 1..Len(f) : f[j] \in DigitChars \cup {"."}
    /\ \A j, k \in 1..Len(f) : (f[j] = "." /\ f[k] = ".") => j = k

\* The line has the 5-field shape and its numeric fields are numeric.
WellFormed(line) ==
    /\ NumFields(line) = 5
    /\ IsInteger(Field(line, 2))
    /\ Field(line, 3) # <<>>
    /\ IsInteger(FirstToken(Field(line, 3)))
    /\ IsDecimal(Field(line, 4))
    /\ IsDecimal(Field(line, 5))

NumRows == Len(data_dict["month"])

(***************************************************************************)
(* C1                                                                      *)
(***************************************************************************)
\* C1: once build_data_dict has completed, the six columns of data_dict all
\* have the same length, the number of non-blank lines after the header.
C1_ColumnsAligned ==
    pc = "built" =>
        \A c \in Columns : Len(data_dict[c]) = Len(DataLineIdx)

\* A load that skipped a blank line and appended at least two rows.
C1_Witness ==
    /\ pc = "built"
    /\ NumRows >= 2
    /\ \E i \in 2..Len(raw_data) : ~NonBlank(raw_data[i])

(***************************************************************************)
(* C9                                                                      *)
(***************************************************************************)
\* C9: build_data_dict drops the first line, skips the lines that are blank
\* and appends one row per remaining line in file order: row i of every
\* column comes from the i-th non-blank line after the header, the sample
\* size from the first token of its third field and the sample type from
\* the last token.
C9_RowsInFileOrder ==
    pc = "built" =>
        /\ NumRows = Len(DataLineIdx)
        /\ \A i \in 1..Len(DataLineIdx) :
              LET line == raw_data[DataLineIdx[i]]
              IN  /\ data_dict["month"][i] = Field(line, 1)
                  /\ data_dict["date"][i] = IntVal(Field(line, 2))
                  /\ data_dict["sample"][i] = IntVal(FirstToken(Field(line, 3)))
                  /\ data_dict["sample type"][i] = LastToken(Field(line, 3))
                  /\ data_dict["Harris result"][i] = FloatVal(Field(line, 4))
                  /\ data_dict["Trump result"][i] = FloatVal(Field(line, 5))

\* A load of two different rows, the second after a blank line and with a
\* sample field of three tokens.
C9_Witness ==
    /\ pc = "built"
    /\ Len(raw_data) = 4
    /\ raw_data[2] = LineLV
    /\ raw_data[3] = LineBlank
    /\ raw_data[4] = LinePadRV
    /\ data_dict["sample type"] = <<(<<"L", "V">>), (<<"R", "V">>)>>
    /\ data_dict["sample"] = <<18, 7>>

(***************************************************************************)
(* Aggregates, as sets of rows rather than as scans                        *)
(***************************************************************************)
Harris == data_dict["Harris result"]

Trump == data_dict["Trump result"]

\* The largest value of a non-empty column.
Largest(col) ==
    CHOOSE m \in {col[i] : i \in 1..Len(col)} :
        \A i \in 1..Len(col) : ~RGt(col[i], m)

\* The sum of col over the rows I: each distinct value times the number of
\* rows of I that hold it.
RECURSIVE WeightedSum(_, _, _)
WeightedSum(vals, col, I) ==
    IF vals = {} THEN Zero
    ELSE LET v == CHOOSE x \in vals : TRUE
         IN  RAdd(RMulInt(v, Cardinality({i \in I : col[i] = v})),
                  WeightedSum(vals \ {v}, col, I))

\* The arithmetic mean of col over the non-empty set of rows I.
MeanOver(col, I) ==
    RDivInt(WeightedSum({col[i] : i \in I}, col, I), Cardinality(I))

(***************************************************************************)
(* C2                                                                      *)
(***************************************************************************)
\* C2: on a non-empty table highest_polling_candidate compares the largest
\* Harris value with the largest Trump value, each over all rows: it
\* returns "Harris" with the Harris maximum when that is greater, "Trump"
\* with the Trump maximum when that is greater, and "EVEN" with the common
\* maximum on a tie; the percentage is that of the larger maximum, to one
\* decimal.
C2_HighestCandidate ==
    (call = "highest_polling_candidate" /\ NumRows > 0) =>
        LET h_max == Largest(Harris)
            t_max == Largest(Trump)
            top == IF RGt(t_max, h_max) THEN t_max ELSE h_max
            who == IF RGt(h_max, t_max) THEN "Harris"
                   ELSE IF RGt(t_max, h_max) THEN "Trump" ELSE "EVEN"
        IN  ret = Return(who \o " " \o Fmt1(RMulInt(top, 100)) \o "%")

\* A tie between maxima that sit in different rows.
C2_Witness ==
    /\ call = "highest_polling_candidate"
    /\ NumRows = 2
    /\ RGt(Harris[1], Harris[2])
    /\ RGt(Trump[2], Trump[1])
    /\ Harris[1] = Trump[2]
    /\ ret = Return("EVEN 57.0%")

(***************************************************************************)
(* C3                                                                      *)
(***************************************************************************)
LVRows == {i \in 1..NumRows : data_dict["sample type"][i] = <<"L", "V">>}

\* C3: likely_voter_polling_average returns the means of the Harris and of
\* the Trump column over exactly the rows whose sample type is "LV", and
\* (0.0, 0.0), without error, when there is no such row.
C3_LikelyVoterAverage ==
    call = "likely_voter_polling_average" =>
        ret = Return(IF LVRows = {} THEN <<Zero, Zero>>
                     ELSE <<MeanOver(Harris, LVRows), MeanOver(Trump, LVRows)>>)

\* Two "LV" rows with different values and a row tagged "lv", whose values
\* would change both means.
C3_Witness ==
    /\ call = "likely_voter_polling_average"
    /\ NumRows = 3
    /\ Cardinality(LVRows) = 2
    /\ \E i \in 1..NumRows : data_dict["sample type"][i] = <<"l", "v">>
    /\ ret = Return(<<Rat(107, 200), Rat(9, 20)>>)

(***************************************************************************)
(* C4                                                                      *)
(***************************************************************************)
\* The rows a slice selects from a table of n rows, as 1-based row numbers.
SliceRows(sl, n) == {i \in 1..n : sl.start < i /\ i <= sl.stop}

\* C4: for n >= 2 rows polling_history_change returns, for each candidate,
\* the mean over rows 0..k-1 minus the mean over rows n-k..n-1, where
\* k = 30 when n >= 60 and k = n // 2 otherwise; the two windows have the
\* same size, and for odd n < 60 they share at most the midpoint row and
\* leave at most one row uncovered.
C4_HistoryChange ==
    (call = "polling_history_change" /\ NumRows >= 2) =>
        LET n == NumRows
            k == IF n >= 60 THEN 30 ELSE n \div 2
            latest == 1..k
            earliest == (n - k + 1)..n
        IN  /\ ret = Return(<<RSub(MeanOver(Harris, latest), MeanOver(Harris, earliest)),
                              RSub(MeanOver(Trump, latest), MeanOver(Trump, earliest))>>)
            /\ SliceRows(latest_slice(n), n) = latest
            /\ SliceRows(earliest_slice(n), n) = earliest
            /\ Cardinality(latest) = Cardinality(earliest)
            /\ (n < 60 /\ n % 2 = 1) =>
                   /\ latest \cap earliest \subseteq {n \div 2 + 1}
                   /\ Cardinality((1..n) \ (latest \cup earliest)) <= 1

\* A table of more than 60 rows, where 30 differs from n // 2, whose
\* 31st row differs from the 30 before it.
C4_Witness ==
    /\ call = "polling_history_change"
    /\ NumRows = 62
    /\ Harris[30] # Harris[31]
    /\ ret = Return(<<Rat(1, 4), Rat(-1, 4)>>)

(***************************************************************************)
(* C5                                                                      *)
(***************************************************************************)
\* C5: on a table of at most one row polling_history_change fails with an
\* explicit insufficient-data error, not with a raw division by zero.
C5_ExplicitInsufficientData ==
    (call = "polling_history_change" /\ NumRows <= 1) =>
        /\ ret.exc # "none"
        /\ ret.exc # "ZeroDivisionError"

(***************************************************************************)
(* C6                                                                      *)
(***************************************************************************)
\* C6: on an empty table highest_polling_candidate fails with an explicit
\* empty-data error raised by the query itself: the load has succeeded,
\* the query returns no string, and the failure is not the fault max()
\* raises on an empty sequence.
C6_ExplicitEmptyData ==
    (call = "highest_polling_candidate" /\ NumRows = 0) =>
        /\ pc = "built"
        /\ ret.exc # "none"
        /\ ret.exc # "ValueError"

(***************************************************************************)
(* C7                                                                      *)
(***************************************************************************)
\* C7: build_data_dict fails exactly when some non-blank line after the
\* header does not have exactly 5 comma-separated fields or has a date,
\* sample size, Harris or Trump field that is not numeric.
C7_RejectsMalformed ==
    pc \in {"built", "failed"} =>
        (pc = "failed" <=>
            \E i \in 1..Len(DataLineIdx) : ~WellFormed(raw_data[DataLineIdx[i]]))

(***************************************************************************)
(* C8                                                                      *)
(***************************************************************************)
\* C8: when build_data_dict fails, no partial table is left: the six
\* columns are as they were before the load.
C8_NoPartialTable == pc = "failed" => data_dict = EmptyDict

(***************************************************************************)
(* C10                                                                     *)
(***************************************************************************)
\* C10: none of the calls main and setUp make on the instance ends in a
\* missing-operation error.
C10_NoMissingOperation == mainpc # "AttributeError"

====
